---- MODULE Spec2Model ----
(***************************************************************************)
(* Model of the image manager (src/index.js): the worker registry with its *)
(* round-robin cursor, the poller, the recursive dispatcher                *)
(* (processTradeAd), the image cache with its sweep, the force-generate    *)
(* and settings handlers and the health aggregation.                       *)
(*                                                                         *)
(* JavaScript runs one callback at a time, so every action below is the    *)
(* code that runs between two suspension points (an await): a handler up   *)
(* to its first pending network call, or the continuation that runs when   *)
(* the call answers.                                                       *)
(***************************************************************************)
EXTENDS Integers, Sequences, FiniteSets, Bags, TLC

VARIABLES
    WORKER_URLS,         \* index.js:41  the ordered worker list
    workersFile,         \* index.js:17  contents of workers.json (NoFile, Unparsable or a list)
    workerIndex,         \* index.js:50  the rotation cursor
    lastPolledTradeAds,  \* index.js:49  ids seen by the last completed poll cycle
    processingQueue,     \* index.js:51  the in-flight set
    images,              \* index.js:43  IMAGE_DIR: file name -> modification time
    now,                 \* Date.now()
    ticks,               \* number of clock advances so far
    calls,               \* bag of the processTradeAd chains waiting on a worker render call
    event,               \* what the last step did: chain ended, ids dispatched, answer sent
    lastFeed,            \* history: the last body with an id list that a poll cycle obtained
    repeated,            \* history: the last poll cycle obtained the same body as the one before
    abandoned,           \* history: ids the poller dispatched, given up, and listed ever since
    everSeen,            \* history: ids that have been in the seen set
    rrLog,               \* the endpoints returned by direct getNextWorker calls
    health               \* the GET /health request in progress, and its last answer

vars == <<WORKER_URLS, workersFile, workerIndex, lastPolledTradeAds, processingQueue,
          images, now, ticks, calls, event, lastFeed, repeated, abandoned,
          everSeen, rrLog, health>>

-----------------------------------------------------------------------------
(* Bounds of the model *)

\* number of processTradeAd chains that may wait on a worker at the same time
MaxDispatch == 2
\* largest value of the rotation cursor explored
MaxIndex == 4
\* number of clock advances explored
MaxTicks == 2
\* number of direct selections logged when the registry is checked on its own
MaxSelections == 4

(* Program constants *)

\* index.js:44  10 * 60 * 1000 ms
CACHE_DURATION == 600000

-----------------------------------------------------------------------------
(* Values *)

\* A listing id as it arrives: a JSON number or a string with the same digits.
\* req.params always holds strings; the feed holds whatever the upstream sends.
Num(v) == <<"num", v>>
Str(v) == <<"str", v>>
NoId == <<"none", 0>>

\* `${adId}` : a number and the string of its digits give the same file name
ToStr(id) == id[2]
FileName(adId) == ToStr(adId)

\* JavaScript ==  on two ids: number against string compares the digits
LooseEq(a, b) == ToStr(a) = ToStr(b)

NoWorker == "none"
NoFile == <<"nofile">>
\* workers.json exists and JSON.parse throws on it (empty, or not JSON)
Unparsable == <<"unparsable">>
\* the JavaScript value undefined: an array read at an index it does not have
Undefined == "undefined"

\* worker lists given through POST /settings
SettingsLists == { <<>>, <<"A", "A">> }

\* answers of a worker to POST /generate: a status, or a network error / timeout
Replies == { [err |-> FALSE, status |-> s] : s \in {200, 367, 500} }
              \cup { [err |-> TRUE, status |-> 0] }

\* answers of the upstream feed: the fetch fails, or it returns a body whose
\* `ads` and `trade_ads` fields are arrays of listings (first element the id) or
\* are missing
Feed(hasAds, ads, hasTrade, trade) ==
    [ok |-> TRUE, hasAds |-> hasAds, ads |-> ads, hasTrade |-> hasTrade, trade_ads |-> trade]
FetchError == [ok |-> FALSE, hasAds |-> FALSE, ads |-> <<>>, hasTrade |-> FALSE, trade_ads |-> <<>>]
Feeds ==
    { FetchError,
      Feed(FALSE, <<>>, TRUE, <<Num(2)>>),
      Feed(TRUE, <<Num(1)>>, TRUE, <<Num(1)>>),
      Feed(TRUE, <<Num(1), Num(2)>>, TRUE, <<Num(1), Num(2)>>),
      Feed(TRUE, <<Str(1), Str(1)>>, TRUE, <<Str(1)>>),
      Feed(TRUE, <<Num(2)>>, FALSE, <<>>) }

\* the :tradeAdId parameters tried on POST /generate
ForceParams == {1}

Range(s) == { s[i] : i \in 1..Len(s) }

-----------------------------------------------------------------------------
(* Worker registry: index.js:53-57 *)

\* a registry that reads the position after the cursor
NextWorkerOffByOne(urls, idx) ==
    IF Len(urls) = 0 THEN Undefined ELSE urls[((idx + 1) % Len(urls)) + 1]

\* getNextWorker, line 54: the endpoint at the cursor, modulo the current length
\* (JavaScript arrays count from 0, sequences from 1).  On an empty list the
\* index is NaN and the read gives undefined.
NextWorker(urls, idx) ==
    IF Len(urls) = 0 THEN Undefined ELSE urls[(idx % Len(urls)) + 1]

\* getNextWorker, line 55: workerIndex++
NextIndex(idx) == idx + 1

\* loadWorkers, lines 20-30: the list in the file when the file exists and
\* parses; when it is absent, or JSON.parse throws (lines 26-28), the
\* WORKER_URLS environment variable split at its commas
LoadWorkers(file, env) == IF file = NoFile \/ file = Unparsable THEN env ELSE file

-----------------------------------------------------------------------------
(* Dispatcher: processTradeAd, index.js:110-173 *)

\* A chain about to start: the arguments of line 110 (attempts = 0, no worker
\* tried), who called, and the render calls made and failed so far
NewCall(adId, origin) ==
    [adId |-> adId, origin |-> origin, attempts |-> 0, triedWorkers |-> {},
     workerUrl |-> NoWorker, MAX_ATTEMPTS |-> 0, posts |-> 0, failed |-> 0]

\* a bound that lets one attempt too many through
ExhaustedLate(attempts, urls) == attempts > Len(urls)

\* lines 113-117: the attempt bound, read against the list as it is now
Exhausted(attempts, urls) == attempts >= Len(urls)

\* lines 167-172: the finally block of a frame that passed line 128
Finally(attempts, maxAttempts, adId, queue) ==
    IF attempts + 1 >= maxAttempts THEN queue \ {adId} ELSE queue

\* a dispatcher that drops the rendered image
WriteImageNothing(imgs, adId, t) == imgs

\* line 157: fs.writeFileSync(imagePath, ...) sets the file's modification time
WriteImage(imgs, adId, t) ==
    [f \in DOMAIN imgs \cup {FileName(adId)} |-> IF f = FileName(adId) THEN t ELSE imgs[f]]

\* a dispatcher that takes every answered request for a rendered image
IsSuccessAnyStatus(reply) == ~reply.err

\* lines 142-153 and 161-166: which answers of a worker count as success
IsSuccess(reply) == ~reply.err /\ reply.status = 200

\* a dispatcher that does not look at the endpoints it has tried
ProcessTradeAdNoTriedCheck(adId, attempts, triedWorkers, idx, queue) ==
    IF Exhausted(attempts, WORKER_URLS)
    THEN [st |-> "returned", attempts |-> attempts, triedWorkers |-> triedWorkers,
          workerUrl |-> NoWorker, MAX_ATTEMPTS |-> Len(WORKER_URLS),
          idx |-> idx, queue |-> queue \ {adId}]
    ELSE [st |-> "await", attempts |-> attempts,
          triedWorkers |-> triedWorkers \cup {NextWorker(WORKER_URLS, idx)},
          workerUrl |-> NextWorker(WORKER_URLS, idx), MAX_ATTEMPTS |-> Len(WORKER_URLS),
          idx |-> NextIndex(idx), queue |-> queue]

\* One call of processTradeAd from its first line to its first await (line 131)
\* or to its return: lines 110-126.  The result tells whether a render call is
\* now pending ("await") or the chain has returned, and the cursor and in-flight
\* set it leaves.
RECURSIVE ProcessTradeAd(_, _, _, _, _)
ProcessTradeAd(adId, attempts, triedWorkers, idx, queue) ==
    IF Exhausted(attempts, WORKER_URLS)
    THEN [st |-> "returned", attempts |-> attempts, triedWorkers |-> triedWorkers,
          workerUrl |-> NoWorker, MAX_ATTEMPTS |-> Len(WORKER_URLS),
          idx |-> idx, queue |-> queue \ {adId}]
    ELSE LET workerUrl == NextWorker(WORKER_URLS, idx) IN
         IF workerUrl \in triedWorkers
         THEN ProcessTradeAd(adId, attempts + 1, triedWorkers, NextIndex(idx), queue)
         ELSE [st |-> "await", attempts |-> attempts,
               triedWorkers |-> triedWorkers \cup {workerUrl},
               workerUrl |-> workerUrl, MAX_ATTEMPTS |-> Len(WORKER_URLS),
               idx |-> NextIndex(idx), queue |-> queue]

\* a frame that sends its render call a second time without awaiting the first
AwaitingTwo(c, r) ==
    [c EXCEPT !.attempts = r.attempts, !.triedWorkers = r.triedWorkers,
              !.workerUrl = r.workerUrl, !.MAX_ATTEMPTS = r.MAX_ATTEMPTS,
              !.posts = c.posts + 2]

\* the chain c waits on the render call the frame r has sent (line 131)
Awaiting(c, r) ==
    [c EXCEPT !.attempts = r.attempts, !.triedWorkers = r.triedWorkers,
              !.workerUrl = r.workerUrl, !.MAX_ATTEMPTS = r.MAX_ATTEMPTS,
              !.posts = c.posts + 1]

One(c) == SetToBag({c})

\* What is seen of a chain when it returns: how it ended, the render calls it
\* made and how many failed, the files it wrote, whether its id is still in the
\* in-flight set, and the length of the worker list
Done(result, c, written, queue) ==
    [result |-> result, adId |-> c.adId, origin |-> c.origin, posts |-> c.posts,
     failed |-> c.failed, written |-> written, inFlightAfter |-> c.adId \in queue,
     workers |-> Len(WORKER_URLS)]

\* The answer force-generate sends when the chain it awaits has returned:
\* lines 243-244
ForceAnswer(c) ==
    IF c.origin = "force"
    THEN {[adId |-> c.adId, status |-> 200, message |-> "Image generated"]}
    ELSE {}

\* what one step did
Event(kind) ==
    [kind |-> kind, outcome |-> "none", dispatched |-> {}, ended |-> {}, answers |-> {},
     removed |-> {}, kept |-> {}]

\* the state a handler works on
Here == [idx |-> workerIndex, queue |-> processingQueue, calls |-> calls,
         ended |-> {}, answers |-> {}, started |-> <<>>, full |-> FALSE, threw |-> FALSE]

\* A caller starts a chain: processTradeAd(adId, tradeData) with attempts = 0 and
\* an empty tried set.  st carries the state the caller has reached so far.
StartDispatch(st, adId, origin) ==
    LET r == ProcessTradeAd(adId, 0, {}, st.idx, st.queue)
        c0 == NewCall(adId, origin)
    IN  IF r.st = "await"
        THEN IF BagCardinality(st.calls) >= MaxDispatch
             THEN [st EXCEPT !.full = TRUE]
             ELSE [st EXCEPT
                     !.idx = r.idx, !.queue = r.queue,
                     !.calls = st.calls (+) One(Awaiting(c0, r)),
                     !.started = Append(st.started, adId)]
        ELSE [st EXCEPT
                !.idx = r.idx, !.queue = r.queue,
                !.ended = st.ended \cup {Done("exhausted", c0, {}, r.queue)},
                !.answers = st.answers \cup ForceAnswer(c0),
                !.started = Append(st.started, adId)]

\* ids whose poller-started chain gave up
GivenUp(ended) == { e.adId : e \in { x \in ended : x.result = "exhausted" /\ x.origin = "poll" } }

\* The continuation of the frame of chain c when its worker answers:
\* lines 141-172
WorkerAnswers(c, reply) ==
    /\ BagIn(c, calls)
    /\ IF IsSuccess(reply)
       THEN \* lines 155-159, then the finally block
            LET queue == Finally(c.attempts, c.MAX_ATTEMPTS, c.adId, processingQueue)
                imgs == WriteImage(images, c.adId, now)
                written == { f \in DOMAIN imgs : f \notin DOMAIN images \/ imgs[f] # images[f]
                                                   \/ f = FileName(c.adId) }
            IN  /\ images' = imgs
                /\ processingQueue' = queue
                /\ calls' = calls (-) One(c)
                /\ event' = [Event("answer") EXCEPT
                               !.ended = {Done("success", c, written, queue)},
                               !.answers = ForceAnswer(c)]
                /\ UNCHANGED workerIndex
       ELSE \* lines 144, 152, 166: the next frame runs, then this frame's finally
            LET r == ProcessTradeAd(c.adId, c.attempts + 1, c.triedWorkers,
                                    workerIndex, processingQueue)
                queue == Finally(c.attempts, c.MAX_ATTEMPTS, c.adId, r.queue)
                c1 == [c EXCEPT !.failed = c.failed + 1]
            IN  /\ r.idx <= MaxIndex
                /\ workerIndex' = r.idx
                /\ processingQueue' = queue
                /\ UNCHANGED images
                /\ IF r.st = "await"
                   THEN /\ calls' = (calls (-) One(c)) (+) One(Awaiting(c1, r))
                        /\ event' = Event("answer")
                   ELSE /\ calls' = calls (-) One(c)
                        /\ event' = [Event("answer") EXCEPT
                                       !.ended = {Done("exhausted", c1, {}, queue)},
                                       !.answers = ForceAnswer(c)]
    /\ UNCHANGED <<WORKER_URLS, workersFile, lastPolledTradeAds, now, ticks, rrLog, health>>

-----------------------------------------------------------------------------
(* Poller: pollTradeAds, index.js:78-108 *)

\* line 88: new Set(ads.map(ad => ad[0])) keeps the first occurrence of each id,
\* in order
RECURSIVE Dedup(_)
Dedup(s) ==
    IF s = <<>> THEN <<>>
    ELSE LET front == Dedup(SubSeq(s, 1, Len(s) - 1))
             last == s[Len(s)]
         IN  IF last \in Range(front) THEN front ELSE Append(front, last)

\* line 90: the ids of the feed that the previous cycle had not seen
IsNewAd(id, seen) == id \notin seen
NewAds(currentAds, seen) ==
    LET Keep(id) == IsNewAd(id, seen) IN SelectSeq(currentAds, Keep)

\* line 95: the caller's check against the in-flight set
MayDispatch(adId, queue) == adId \notin queue

\* lines 94-99: the loop over newAds, from position i on.  Line 97 reads
\* response.data.trade_ads.find, which throws when the body has no trade_ads.
RECURSIVE PollLoop(_, _, _, _)
PollLoop(feed, newAds, i, st) ==
    IF i > Len(newAds) \/ st.full \/ st.threw THEN st
    ELSE LET adId == newAds[i] IN
         IF ~MayDispatch(adId, st.queue)
         THEN PollLoop(feed, newAds, i + 1, st)
         ELSE LET added == [st EXCEPT !.queue = st.queue \cup {adId}] IN
              IF ~feed.hasTrade
              THEN [added EXCEPT !.threw = TRUE]
              ELSE PollLoop(feed, newAds, i + 1, StartDispatch(added, adId, "poll"))

\* a poller that never renews its seen set
SeenAfterStale(feed, seen, threw) == seen

\* line 102 (skipped when line 97 threw)
SeenAfter(feed, seen, threw) == IF threw THEN seen ELSE Range(feed.ads)

\* line 87: the body carries the id list
ObtainsFeed(feed) == feed.ok /\ feed.hasAds

\* The continuation of pollTradeAds when the feed fetch answers (nothing is read
\* before the await on line 81)
Poll(feed) ==
    /\ IF ObtainsFeed(feed)
       THEN LET currentAds == Dedup(feed.ads)
                newAds == NewAds(currentAds, lastPolledTradeAds)
                st == PollLoop(feed, newAds, 1, Here)
            IN  /\ ~st.full
                /\ st.idx <= MaxIndex
                /\ workerIndex' = st.idx
                /\ processingQueue' = st.queue
                /\ calls' = st.calls
                /\ lastPolledTradeAds' = SeenAfter(feed, lastPolledTradeAds, st.threw)
                /\ event' = [Event("poll") EXCEPT
                               !.outcome = IF st.threw THEN "threw" ELSE "done",
                               !.dispatched = Range(st.started),
                               !.ended = st.ended]
       ELSE /\ event' = [Event("poll") EXCEPT
                           !.outcome = IF feed.ok THEN "nofeed" ELSE "error"]
            /\ UNCHANGED <<workerIndex, processingQueue, calls, lastPolledTradeAds>>
    /\ UNCHANGED <<WORKER_URLS, workersFile, images, now, ticks, rrLog, health>>

-----------------------------------------------------------------------------
(* Force-generate: app.post('/generate/:tradeAdId'), index.js:228-250 *)

\* line 238: trade_ads.find(ad => ad[0] == tradeAdId)
FindTradeAd(feed, tradeAdId) ==
    \E i \in 1..Len(feed.trade_ads) : LooseEq(feed.trade_ads[i], tradeAdId)

\* The continuation of the handler when the feed fetch answers
ForceGenerate(v, feed) ==
    LET tradeAdId == Str(v) IN
    /\ IF ~feed.ok \/ ~feed.hasTrade
       THEN \* lines 246-249: the fetch failed, or line 238 threw
            /\ event' = [Event("force") EXCEPT
                           !.answers = {[adId |-> tradeAdId, status |-> 500,
                                         message |-> "Failed to generate image"]}]
            /\ UNCHANGED <<workerIndex, processingQueue, calls>>
       ELSE IF ~FindTradeAd(feed, tradeAdId)
       THEN /\ event' = [Event("force") EXCEPT
                           !.answers = {[adId |-> tradeAdId, status |-> 404,
                                         message |-> "Trade ad not found"]}]
            /\ UNCHANGED <<workerIndex, processingQueue, calls>>
       ELSE LET st == StartDispatch(Here, tradeAdId, "force")
            IN  /\ ~st.full
                /\ st.idx <= MaxIndex
                /\ workerIndex' = st.idx
                /\ processingQueue' = st.queue
                /\ calls' = st.calls
                /\ event' = [Event("force") EXCEPT
                               !.dispatched = Range(st.started),
                               !.ended = st.ended, !.answers = st.answers]
    /\ UNCHANGED <<WORKER_URLS, workersFile, lastPolledTradeAds, images, now, ticks, rrLog, health>>

-----------------------------------------------------------------------------
(* Settings: app.post('/settings'), index.js:256-265 *)

NotAnArray == <<"notanarray">>

\* a handler that restarts the rotation when the list is replaced
ReplaceWorkersResetsCursor(workers) ==
    /\ IF workers # NotAnArray
       THEN /\ WORKER_URLS' = workers
            /\ workersFile' = workers
            /\ workerIndex' = 0
       ELSE UNCHANGED <<WORKER_URLS, workersFile, workerIndex>>
    /\ event' = [Event("settings") EXCEPT
                   !.outcome = IF workers # NotAnArray THEN "replaced" ELSE "invalid"]
    /\ UNCHANGED <<lastPolledTradeAds, processingQueue, images, now, ticks,
                   calls, rrLog, health>>

\* lines 258-261: the list is swapped and saved; the cursor is not touched
ReplaceWorkers(workers) ==
    /\ IF workers # NotAnArray
       THEN /\ WORKER_URLS' = workers
            /\ workersFile' = workers
       ELSE UNCHANGED <<WORKER_URLS, workersFile>>
    /\ event' = [Event("settings") EXCEPT
                   !.outcome = IF workers # NotAnArray THEN "replaced" ELSE "invalid"]
    /\ UNCHANGED <<workerIndex, lastPolledTradeAds, processingQueue, images, now, ticks,
                   calls, rrLog, health>>

-----------------------------------------------------------------------------
(* Image cache sweep: cleanupOldImages, index.js:59-76 *)

\* a sweep that also removes the files exactly as old as the window
ExpiredAtWindow(mtime, t) == t - mtime >= CACHE_DURATION

\* line 68
Expired(mtime, t) == t - mtime > CACHE_DURATION

\* lines 64-72: every expired file is unlinked
CleanupOldImages(imgs, t) ==
    [f \in { g \in DOMAIN imgs : ~Expired(imgs[g], t) } |-> imgs[f]]

Sweep ==
    /\ images' = CleanupOldImages(images, now)
    /\ event' = [Event("sweep") EXCEPT
                   !.removed = DOMAIN images \ DOMAIN images', !.kept = DOMAIN images']
    /\ UNCHANGED <<WORKER_URLS, workersFile, workerIndex, lastPolledTradeAds,
                   processingQueue, now, ticks, calls, rrLog, health>>

\* time passes
ClockSteps == {1, CACHE_DURATION}
Tick(step) ==
    /\ ticks < MaxTicks
    /\ now' = now + step
    /\ ticks' = ticks + 1
    /\ event' = Event("tick")
    /\ UNCHANGED <<WORKER_URLS, workersFile, workerIndex, lastPolledTradeAds,
                   processingQueue, images, calls, rrLog, health>>

-----------------------------------------------------------------------------
(* Direct use of the registry: getNextWorker called on its own *)

SelectWorker ==
    /\ Len(rrLog) < MaxSelections
    /\ workerIndex < MaxIndex
    /\ rrLog' = Append(rrLog, [cursor |-> workerIndex, urls |-> WORKER_URLS,
                               worker |-> NextWorker(WORKER_URLS, workerIndex)])
    /\ workerIndex' = NextIndex(workerIndex)
    /\ event' = Event("select")
    /\ UNCHANGED <<WORKER_URLS, workersFile, lastPolledTradeAds, processingQueue, images,
                   now, ticks, calls, health>>

-----------------------------------------------------------------------------
(* Health aggregation: app.get('/health'), index.js:176-211 *)

NoHealth == [pc |-> "idle", pending |-> {}, silent |-> {}, succeeded |-> {},
             healthyWorkers |-> 0, totalWorkersRam |-> 0]

\* ramUsage values a worker reports; 0 stands for a missing (falsy) field
RamValues == {0, 100}

\* lines 194-210: the answer, sent when Promise.all resolves
HealthReport(h) ==
    [adId |-> NoId, status |-> 200, message |-> "healthy",
     workers |-> Len(WORKER_URLS), healthyWorkers |-> h.healthyWorkers,
     ramUsage |-> h.totalWorkersRam, processing |-> Cardinality(processingQueue),
     cachedImages |-> Cardinality(DOMAIN images)]

\* lines 184-187: a query that succeeded
CountHealthy(h, ram) ==
    [h EXCEPT !.healthyWorkers = h.healthyWorkers + 1,
              !.totalWorkersRam = IF ram # 0 THEN h.totalWorkersRam + ram
                                  ELSE h.totalWorkersRam]

\* lines 177-183: one query per list position is sent; silent are the positions
\* whose worker accepts the request and never answers (line 183 sets no timeout)
HealthStart(silent) ==
    /\ health.pc = "idle"
    /\ silent \subseteq 1..Len(WORKER_URLS)
    /\ IF Len(WORKER_URLS) = 0
       THEN /\ health' = NoHealth
            /\ event' = [Event("health") EXCEPT !.answers = {HealthReport(NoHealth)}]
       ELSE /\ health' = [NoHealth EXCEPT !.pc = "wait", !.pending = 1..Len(WORKER_URLS),
                                          !.silent = silent]
            /\ event' = Event("health")
    /\ UNCHANGED <<WORKER_URLS, workersFile, workerIndex, lastPolledTradeAds,
                   processingQueue, images, now, ticks, calls, rrLog>>

\* lines 183-190: the query of position i answers (ok) or fails; when it was the
\* last one pending, lines 194-210 run
HealthAnswer(i, ok, ram) ==
    /\ health.pc = "wait"
    /\ i \in health.pending \ health.silent
    /\ LET counted == IF ok THEN CountHealthy(health, ram) ELSE health
           h == [counted EXCEPT !.pending = health.pending \ {i},
                                !.succeeded = IF ok THEN health.succeeded \cup {i}
                                              ELSE health.succeeded]
       IN  IF h.pending = {}
           THEN /\ health' = [h EXCEPT !.pc = "idle"]
                /\ event' = [Event("health") EXCEPT !.answers = {HealthReport(h)}]
           ELSE /\ health' = h
                /\ event' = Event("health")
    /\ UNCHANGED <<WORKER_URLS, workersFile, workerIndex, lastPolledTradeAds,
                   processingQueue, images, now, ticks, calls, rrLog>>

-----------------------------------------------------------------------------
(* The manager *)

\* environment values of WORKER_URLS: split(',') never gives an empty list
EnvLists == { <<"A">>, <<"A", "B">> }

\* lines 41-51: the state after start-up, for the given contents of workers.json
\* and values of the environment variable
InitWith(files, envs) ==
    /\ workersFile \in files
    /\ \E env \in envs : WORKER_URLS = LoadWorkers(workersFile, env)
    /\ workerIndex = 0
    /\ lastPolledTradeAds = {}
    /\ processingQueue = {}
    /\ images = << >>
    /\ now = 0
    /\ ticks = 0
    /\ calls = EmptyBag
    /\ event = Event("init")
    /\ lastFeed = FetchError
    /\ repeated = FALSE
    /\ abandoned = {}
    /\ everSeen = {}
    /\ rrLog = << >>
    /\ health = NoHealth

Init == InitWith({NoFile}, EnvLists)

\* the history variables, which only SpecObserved keeps
observers == <<lastFeed, repeated, abandoned, everSeen>>

\* The dispatch engine: poller, force-generate, worker answers, settings
Next ==
    \/ \E feed \in Feeds : Poll(feed) /\ UNCHANGED observers
    \/ \E v \in ForceParams, feed \in Feeds : ForceGenerate(v, feed) /\ UNCHANGED observers
    \/ \E c \in BagToSet(calls), reply \in Replies :
          WorkerAnswers(c, reply) /\ UNCHANGED observers
    \/ \E workers \in SettingsLists \cup {NotAnArray} :
          ReplaceWorkers(workers) /\ UNCHANGED observers

Spec == Init /\ [][Next]_vars

\* The engine on a worker list that is never replaced
InitFixed == InitWith({<<"A", "B", "C">>, NoFile}, {<<"A", "B">>})

NextFixed ==
    \/ \E feed \in Feeds : Poll(feed) /\ UNCHANGED observers
    \/ \E v \in ForceParams, feed \in Feeds : ForceGenerate(v, feed) /\ UNCHANGED observers
    \/ \E c \in BagToSet(calls), reply \in Replies :
          WorkerAnswers(c, reply) /\ UNCHANGED observers

SpecFixed == InitFixed /\ [][NextFixed]_vars

\* The engine with the poll history kept: the last body obtained, whether the
\* last cycle obtained the same body again, and the ids whose poller-started
\* chain gave up while the id was in the last body obtained and that every body
\* obtained since has listed
Listed == Range(lastFeed.ads)

Observe(feed) ==
    /\ lastFeed' = IF ObtainsFeed(feed) THEN feed ELSE lastFeed
    /\ repeated' = (ObtainsFeed(feed) /\ feed = lastFeed)
    /\ abandoned' = (IF ObtainsFeed(feed) THEN abandoned \cap Range(feed.ads) ELSE abandoned)
                      \cup (GivenUp(event'.ended) \cap Range(lastFeed'.ads))
    /\ UNCHANGED everSeen

NextObserved ==
    \/ \E feed \in Feeds : Poll(feed) /\ Observe(feed)
    \/ \E v \in ForceParams, feed \in Feeds :
          ForceGenerate(v, feed) /\ UNCHANGED observers
    \/ \E c \in BagToSet(calls), reply \in Replies :
          /\ WorkerAnswers(c, reply)
          /\ UNCHANGED <<lastFeed, repeated, everSeen>>
          /\ abandoned' = abandoned \cup (GivenUp(event'.ended) \cap Listed)
    \/ ReplaceWorkers(<<>>) /\ UNCHANGED observers

SpecObserved == Init /\ [][NextObserved]_vars

\* The poller on feeds that list an id, drop it and list it again, with the ids
\* that have been in the seen set kept as history
ReturningFeeds ==
    { FetchError,
      Feed(TRUE, <<Num(1)>>, TRUE, <<Num(1)>>),
      Feed(TRUE, <<Num(2)>>, TRUE, <<Num(2)>>),
      Feed(TRUE, <<Num(1), Num(2)>>, TRUE, <<Num(1), Num(2)>>) }

Remember ==
    /\ everSeen' = everSeen \cup lastPolledTradeAds'
    /\ UNCHANGED <<lastFeed, repeated, abandoned>>

NextReturning ==
    \/ \E feed \in ReturningFeeds : Poll(feed) /\ Remember
    \/ \E v \in ForceParams, feed \in ReturningFeeds :
          ForceGenerate(v, feed) /\ UNCHANGED observers
    \/ \E c \in BagToSet(calls), reply \in Replies :
          WorkerAnswers(c, reply) /\ UNCHANGED observers

SpecReturning == Init /\ [][NextReturning]_vars

\* The cache: images are written by the engine and swept as time passes
InitCache == InitWith({NoFile}, {<<"A", "B">>})

NextCache ==
    \/ \E feed \in Feeds : Poll(feed) /\ UNCHANGED observers
    \/ \E v \in ForceParams, feed \in Feeds : ForceGenerate(v, feed) /\ UNCHANGED observers
    \/ \E c \in BagToSet(calls), reply \in Replies :
          WorkerAnswers(c, reply) /\ UNCHANGED observers
    \/ Sweep /\ UNCHANGED observers
    \/ \E step \in ClockSteps : Tick(step) /\ UNCHANGED observers

SpecCache == InitCache /\ [][NextCache]_vars

\* The registry on its own: selections and replacements
RegistryLists == { <<"A">>, <<"A", "B">>, <<"A", "B", "C">>, <<"B", "A">> }
InitRegistry == InitWith(RegistryLists \cup {NoFile, Unparsable}, EnvLists)

NextRegistry ==
    \/ SelectWorker /\ UNCHANGED observers
    \/ \E workers \in RegistryLists \cup {<<>>, NotAnArray} :
          ReplaceWorkers(workers) /\ UNCHANGED observers

SpecRegistry == InitRegistry /\ [][NextRegistry]_vars

\* The health aggregation, with the list replaced while it runs
NextHealth ==
    \/ \E silent \in SUBSET (1..Len(WORKER_URLS)) : HealthStart(silent) /\ UNCHANGED observers
    \/ \E i \in health.pending, ok \in BOOLEAN, ram \in RamValues :
          HealthAnswer(i, ok, ram) /\ UNCHANGED observers
    \/ \E workers \in SettingsLists \cup {<<"A", "B", "C">>} :
          ReplaceWorkers(workers) /\ UNCHANGED observers

SpecHealth == Init /\ [][NextHealth]_vars

-----------------------------------------------------------------------------
(* Properties *)

\* number of chains waiting on a worker for the listing id
ActiveFor(id) ==
    BagCardinality([c \in { x \in BagToSet(calls) : x.adId = id } |-> calls[c]])

ActiveIds == { c.adId : c \in BagToSet(calls) }

\* C1: in every reachable state there is at most one active dispatch (a
\* processTradeAd chain that has started and not returned) per listing id.
\* Fails: force-generate starts a chain without looking at the in-flight set.
C1_OneDispatchPerListing == \A id \in ActiveIds : ActiveFor(id) <= 1

\* C2: a dispatch requested for a listing id that is already in the in-flight
\* set is a no-op: no render call is sent, no file is written, the in-flight set
\* and the cursor stay as they are.  The poller makes the check itself (line 95);
\* force-generate calls processTradeAd, which makes none.
C2_RedundantDispatchIsNoOp ==
    [][\A v \in ForceParams, feed \in Feeds :
         (/\ event'.kind = "force"
          /\ Str(v) \in processingQueue
          /\ feed.ok /\ feed.hasTrade /\ FindTradeAd(feed, Str(v))
          /\ ForceGenerate(v, feed))
         => UNCHANGED <<calls, images, processingQueue, workerIndex>>]_vars

\* C3: when a dispatch has returned, by success on any attempt or by
\* exhaustion, its id is no longer in the in-flight set.
\* Fails: line 169 removes the id only when attempts + 1 >= MAX_ATTEMPTS.
C3_DispatchLeavesInFlightSet == \A e \in event.ended : ~e.inFlightAfter

\* C4: a dispatch whose first K render calls fail (367, another status, a
\* network error or timeout) and whose next call succeeds makes exactly K + 1
\* render calls and writes exactly one file, the one of its listing id.
C4_CallsUntilSuccess ==
    /\ \A e \in event.ended :
          e.result = "success" =>
             /\ e.posts = e.failed + 1
             /\ e.written = {FileName(e.adId)}
             /\ FileName(e.adId) \in DOMAIN images
    /\ \A c \in BagToSet(calls) : c.posts = c.failed + 1

C4_Witness ==
    \E e \in event.ended : e.result = "success" /\ e.failed = 2 /\ e.workers = 3

\* C5: with N registered workers that all fail, a dispatch makes exactly N
\* render calls, writes no file, and its id is not in the in-flight set once it
\* has returned.
\* Fails: a selection that returns an endpoint already tried uses up an attempt
\* (line 123), so a chain gives up early when another chain moved the cursor.
C5_AllFailMakesNCalls ==
    \A e \in event.ended :
       e.result = "exhausted" =>
          e.posts = e.workers /\ e.written = {} /\ ~e.inFlightAfter

\* C6: a poll cycle that obtains a feed dispatches exactly the ids of the feed
\* that are not in the previous seen set and not in the in-flight set.
\* Fails: for a body with `ads` and without `trade_ads`, line 97 throws after
\* line 96 has put the id in the in-flight set, and nothing is dispatched.
C6_PollDispatchesNewIds ==
    [][\A feed \in Feeds :
         (event'.kind = "poll" /\ ObtainsFeed(feed) /\ Poll(feed))
         => event'.dispatched =
               { id \in Range(feed.ads) :
                    id \notin lastPolledTradeAds /\ id \notin processingQueue }]_vars

\* C7: a poll cycle that obtains the same feed contents as the cycle before it
\* dispatches nothing (so does a cycle that obtains none); and the poller does
\* not dispatch again a listing whose dispatch it started and that was given up
\* after all workers failed, as long as the id has been in every feed obtained
\* since.
C7_RepeatedFeedDispatchesNothing ==
    [][\A feed \in Feeds :
         (event'.kind = "poll" /\ Poll(feed)) =>
            /\ (ObtainsFeed(feed) /\ feed = lastFeed) => event'.dispatched = {}
            /\ ~ObtainsFeed(feed) => event'.dispatched = {}
            /\ ObtainsFeed(feed) =>
                  event'.dispatched \cap (abandoned \cap Range(feed.ads)) = {}]_vars

C7_Witness ==
    /\ event.kind = "poll" /\ event.outcome = "done" /\ event.dispatched = {}
    /\ repeated
    /\ lastPolledTradeAds # {}
    /\ \E id \in abandoned \cap Listed : id \notin processingQueue

\* C8: a sweep removes every file whose age exceeds the retention window and
\* keeps every other file as it is; no other step removes a file.
C8_SweepRemovesExactlyExpired ==
    [][\A f \in DOMAIN images :
         /\ (event'.kind = "sweep" /\ now - images[f] > CACHE_DURATION)
               => f \notin DOMAIN images'
         /\ (event'.kind # "sweep" \/ now - images[f] <= CACHE_DURATION)
               => (f \in DOMAIN images' /\ images'[f] >= images[f])
         /\ (event'.kind = "sweep" /\ now - images[f] <= CACHE_DURATION)
               => images'[f] = images[f]]_vars

C8_Witness ==
    /\ event.kind = "sweep"
    /\ event.removed # {}
    /\ \E f \in event.kept : now - images[f] = CACHE_DURATION

\* C9: a selection on a non-empty list returns the endpoint at position
\* (cursor mod list length); every selection advances the cursor by exactly one; four selections over [A, B, C] give
\* A, B, C, A; the cursor never decreases.
C9_RoundRobin ==
    /\ [](\A i \in 1..Len(rrLog) :
            /\ Len(rrLog[i].urls) > 0 =>
                  rrLog[i].worker =
                     rrLog[i].urls[(rrLog[i].cursor % Len(rrLog[i].urls)) + 1]
            /\ i > 1 => rrLog[i].cursor = rrLog[i - 1].cursor + 1
            /\ i = Len(rrLog) => workerIndex = rrLog[i].cursor + 1)
    /\ []((Len(rrLog) = 4 /\ \A i \in 1..4 : rrLog[i].urls = <<"A", "B", "C">>)
            => [i \in 1..4 |-> rrLog[i].worker] = <<"A", "B", "C", "A">>)
    /\ [][workerIndex' >= workerIndex]_vars

C9_Witness ==
    Len(rrLog) = 4 /\ \A i \in 1..4 : rrLog[i].urls = <<"A", "B", "C">>

\* C10: the health aggregation always completes, and reports as total the
\* number of registered workers and as healthy the number of queries that
\* succeeded; a worker that never answers does not block it.
\* Fails: line 183 sets no timeout, so the answer waits for ever on a worker
\* that accepts the request and stays silent.
C10_HealthCompletes ==
    /\ health.pc = "wait" =>
          ENABLED (\E i \in health.pending, ok \in BOOLEAN, ram \in RamValues :
                      HealthAnswer(i, ok, ram))
    /\ (event.kind = "health" /\ event.answers # {}) =>
          \A a \in event.answers :
             /\ a.workers = Len(WORKER_URLS)
             /\ a.healthyWorkers = Cardinality(health.succeeded)

\* C11: in every reachable state, the id of every active dispatch (a chain
\* started by the poller or by force-generate that has not returned) is in the
\* in-flight set.
\* Fails: only the poller adds the id (line 96); force-generate calls
\* processTradeAd, which never adds it.
C11_ActiveDispatchIsInFlight == \A c \in BagToSet(calls) : c.adId \in processingQueue

\* C12: a selection that returns an endpoint already tried for the listing
\* uses up no attempt, so a chain gives up only when every distinct endpoint of
\* the worker list has received a render call for the listing, also with other
\* chains moving the cursor between its attempts.
\* Fails: line 123 recurses with attempts + 1.
C12_GivesUpOnlyAfterEveryWorker ==
    [][\A c \in BagToSet(calls), reply \in Replies :
         (/\ event'.kind = "answer"
          /\ WorkerAnswers(c, reply)
          /\ \E e \in event'.ended : e.result = "exhausted")
         => Range(WORKER_URLS) \subseteq c.triedWorkers]_vars

\* C13: every dispatch terminates when each render call returns, and makes at
\* most worker_count render calls.  A chain waiting on a worker has made at most
\* attempts + 1 calls with attempts below the worker count its frame read; every
\* answer either ends the chain or leaves it waiting on one more call with a
\* strictly larger attempt number, so the worker count bounds the number of
\* answers a chain can take.
C13_DispatchTerminates ==
    /\ [](\A c \in BagToSet(calls) :
            /\ c.attempts < c.MAX_ATTEMPTS
            /\ c.posts <= c.attempts + 1
            /\ c.posts <= c.MAX_ATTEMPTS)
    /\ [][\A c \in BagToSet(calls), reply \in Replies :
            (event'.kind = "answer" /\ WorkerAnswers(c, reply)) =>
               \/ /\ \E e \in event'.ended : e.adId = c.adId /\ e.posts = c.posts
                  /\ calls' = calls (-) One(c)
               \/ /\ event'.ended = {}
                  /\ \E c2 \in BagToSet(calls') :
                        /\ c2.adId = c.adId
                        /\ c2.attempts > c.attempts
                        /\ c2.posts = c.posts + 1
                        /\ calls' = (calls (-) One(c)) (+) One(c2)]_vars

C13_Witness ==
    \E e \in event.ended :
       e.result = "exhausted" /\ e.posts = 2 /\ e.workers = 2 /\ e.failed = 2

\* C14: within one dispatch the attempts are strictly sequential.  A chain that
\* has not returned has exactly one render call outstanding (calls sent minus
\* calls failed), and a chain sends a further call only in the step in which
\* its previous call answered with a failure.
C14_AttemptsAreSequential ==
    /\ [](\A c \in BagToSet(calls) : c.posts - c.failed = 1 /\ c.workerUrl # NoWorker)
    /\ [][\A c2 \in BagToSet(calls') :
            (~BagIn(c2, calls) \/ calls'[c2] > calls[c2]) =>
               \/ c2.posts = 1 /\ c2.failed = 0 /\ event'.kind \in {"poll", "force"}
               \/ /\ event'.kind = "answer"
                  /\ \E c \in BagToSet(calls) :
                        /\ c.adId = c2.adId
                        /\ c2.posts = c.posts + 1
                        /\ c2.failed = c.failed + 1
                        /\ c2.workerUrl \notin c.triedWorkers
                        /\ calls' = (calls (-) One(c)) (+) One(c2)]_vars

C14_Witness ==
    /\ BagCardinality(calls) = 2
    /\ \E c \in BagToSet(calls) : c.posts = 2 /\ c.failed = 1
    /\ event.kind = "answer"

\* C15: a poll cycle that obtains a feed replaces the seen set by exactly the
\* ids of that feed, not merged with the old set, whatever happened to the
\* dispatches; a cycle whose fetch fails leaves the seen set and the in-flight
\* set as they are and dispatches nothing.
\* Fails: when line 97 throws (a body without `trade_ads`), line 102 is skipped
\* and the seen set keeps its old value.
C15_SeenSetReplacedWholesale ==
    [][\A feed \in Feeds :
         (event'.kind = "poll" /\ Poll(feed)) =>
            /\ ObtainsFeed(feed) => lastPolledTradeAds' = Range(feed.ads)
            /\ ~feed.ok =>
                  /\ UNCHANGED <<lastPolledTradeAds, processingQueue, calls>>
                  /\ event'.dispatched = {}]_vars

\* C16: an id that was in the seen set, was dropped from it by a cycle whose
\* feed did not list it, and is listed again is dispatched by the cycle that
\* obtains that feed, whenever no dispatch for the id is active at that moment.
\* Fails: an id left in the in-flight set by a dispatch that has returned
\* (line 169) is skipped on line 95.
C16_ReturningIdIsDispatchedAgain ==
    [][\A feed \in ReturningFeeds, id \in everSeen :
         (/\ event'.kind = "poll"
          /\ ObtainsFeed(feed)
          /\ id \in Range(feed.ads)
          /\ id \notin lastPolledTradeAds
          /\ id \notin ActiveIds
          /\ Poll(feed))
         => id \in event'.dispatched]_vars

\* C17: replacing the worker list leaves the cursor as it is, and every
\* selection made on a non-empty list, after any selections and replacements
\* (shrinking or growing), returns a member of the list as it is then.
C17_ReplacementKeepsCursor ==
    /\ [][event'.kind = "settings" => workerIndex' = workerIndex]_vars
    /\ [](\A i \in 1..Len(rrLog) :
            Len(rrLog[i].urls) > 0 => rrLog[i].worker \in Range(rrLog[i].urls))
    /\ [][\A workers \in RegistryLists :
            (event'.kind = "settings" /\ ReplaceWorkers(workers)) =>
               NextWorker(WORKER_URLS', workerIndex') \in Range(workers)]_vars

C17_Witness ==
    \E i \in 2..Len(rrLog) :
       /\ Len(rrLog[i].urls) < Len(rrLog[i - 1].urls)
       /\ rrLog[i].cursor >= Len(rrLog[i].urls)
       /\ rrLog[i].worker \in Range(rrLog[i].urls)

\* C18: within one dispatch no endpoint receives more than one render call,
\* for any worker list (duplicates included), any answers and any interleaving
\* with other dispatches: the calls a chain has sent are as many as the distinct
\* endpoints it has called, and each further call goes to an endpoint the chain
\* had not called.
C18_NoEndpointCalledTwice ==
    /\ [](\A c \in BagToSet(calls) :
            /\ Cardinality(c.triedWorkers) = c.posts
            /\ c.workerUrl \in c.triedWorkers)
    /\ [][\A c \in BagToSet(calls), reply \in Replies :
            (event'.kind = "answer" /\ WorkerAnswers(c, reply) /\ event'.ended = {}) =>
               \E c2 \in BagToSet(calls') :
                  /\ calls' = (calls (-) One(c)) (+) One(c2)
                  /\ c2.workerUrl \notin c.triedWorkers
                  /\ c2.triedWorkers = c.triedWorkers \cup {c2.workerUrl}]_vars

C18_Witness ==
    /\ WORKER_URLS = <<"A", "A">>
    /\ \E e \in event.ended : e.result = "exhausted" /\ e.posts = 1 /\ e.failed = 1

\* C19: force-generate answers when the dispatch it started has returned, and
\* answers 'Image generated' only when that dispatch ended with a worker's
\* success and the file of the listing was written.
\* Fails: line 244 sends the success answer whatever processTradeAd did; a
\* chain that gave up returns normally (line 116).
C19_ForceReportsSuccessOnlyOnSuccess ==
    \A a \in event.answers :
       a.message = "Image generated" =>
          \E e \in event.ended :
             /\ e.adId = a.adId
             /\ e.origin = "force"
             /\ e.result = "success"
             /\ FileName(a.adId) \in DOMAIN images

\* C20: the file of a listing is created or rewritten only by the step in
\* which a worker's render call for that listing answered with status 200; an
\* answer that is a failure or an overload, a chain giving up, a poll cycle, a
\* force-generate request, a sweep or the passing of time creates or rewrites
\* no file.
C20_OnlySuccessWritesImage ==
    [][/\ \A f \in DOMAIN images' :
             (f \notin DOMAIN images \/ images'[f] # images[f]) =>
                /\ event'.kind = "answer"
                /\ images'[f] = now
                /\ \E c \in BagToSet(calls) :
                      /\ FileName(c.adId) = f
                      /\ WorkerAnswers(c, [err |-> FALSE, status |-> 200])
       /\ \A c \in BagToSet(calls), reply \in Replies :
             (/\ event'.kind = "answer"
              /\ reply.err \/ reply.status # 200
              /\ WorkerAnswers(c, reply))
             => images' = images]_vars

C20_Witness ==
    /\ event.kind = "answer"
    /\ now > 0
    /\ \E e \in event.ended :
          /\ e.result = "success"
          /\ e.failed > 0
          /\ images[FileName(e.adId)] = now
    /\ \E f \in DOMAIN images : images[f] < now

====
